---- MODULE Spec2Model ----
\* A model of tools/dither.py of deanh/zine-tools: the three dithering engines
\* (floyd_steinberg_python, atkinson_python, ordered_dither), the nearest-colour
\* search they share, and the part of main that calls them.
\*
\* Numbers.  The code computes in float64.  Every value it can form from 8-bit
\* pixels and palettes is a multiple of 1/64 of magnitude below 2^20 (pattern
\* entries are n/4, n/16 or n/64, times 255, minus 128), and so are the squared
\* distances (multiples of 1/4096 below 2^21): float64 holds all of them exactly.
\* The model therefore holds a float value v as the integer v * Q.
EXTENDS Integers, Sequences, FiniteSets, TLC

\* ---------------------------------------------------------------- bounds
MaxW == 5
MaxH == 3

\* The largest width and height of the images that are dithered twice.
TwiceW == 3
TwiceH == 2

\* The largest side of the images of the invocations that run side by side.
InterDim == 2

\* The largest width and height of the images of SpecRaster.
RasterW == 4
RasterH == 3

\* The side of the images of SpecOrdered, and of the image SpecPartition splits.
OrdDim == 8
PartDim == 64

\* One float unit is Q model units (the finest denominator of the code, line 126).
Q == 64

\* ---------------------------------------------------------------- vectors
Channels == 1..3

VAdd(a, b) == <<a[1] + b[1], a[2] + b[2], a[3] + b[3]>>
VSub(a, b) == <<a[1] - b[1], a[2] - b[2], a[3] - b[3]>>

\* v * num / den on a float vector (lines 40-46: error * 7 / 16; line 82: / 8).
\* The quotient is exact whenever den divides v * num, which holds for every
\* value the code forms here.
VScale(v, num, den) ==
    <<(v[1] * num) \div den, (v[2] * num) \div den, (v[3] * num) \div den>>

\* np.array(..., dtype=np.float64) of one 8-bit triple.
ToFloat(c) == <<c[1] * Q, c[2] * Q, c[3] * Q>>

\* An array of shape (h, w, ...) is a function of the row index 0..h-1 whose
\* values are functions of the column index 0..w-1; a cell is a pair <<row, col>>.
Cells(h, w) == (0..(h - 1)) \X (0..(w - 1))

At(arr, p) == arr[p[1]][p[2]]

\* The empty array.
Empty == <<>>

\* ---------------------------------------------------------------- inputs
Black == <<0, 0, 0>>
White == <<255, 255, 255>>
Grey(v) == <<v, v, v>>

PixelVals == {White, Grey(10), Grey(250), Grey(128)}

\* The source images: width 0..MaxW, height 0..MaxH, two colours alternating in
\* raster order (flat when the two are equal).
MkImage(h, w, a, b) ==
    [h |-> h, w |-> w,
     px |-> [i \in 0..(h - 1) |-> [j \in 0..(w - 1) |->
                IF (i * w + j) % 2 = 0 THEN a ELSE b]]]

Images == {MkImage(h, w, a, b) : h \in 0..MaxH, w \in 0..MaxW, a \in PixelVals, b \in PixelVals}

Palettes ==
    { <<>>,
      <<Black>>,
      <<White>>,
      <<Black, White>>,
      <<White, Black>>,
      <<Black, Grey(20)>>,
      <<Grey(20), Black>>,
      <<<<255, 0, 128>>, <<0, 120, 191>>, White>> }

\* ---------------------------------------------------------------- nearest colour
\* The mutant of SqDist: only the first channel is compared.
SqDistFirstChannel(c, v) == (c[1] * Q - v[1]) * (c[1] * Q - v[1])

\* np.sum((palette - old_pixel) ** 2, axis=1): palette is the float palette
\* array, v a float vector (lines 32, 77, 149).
SqDist(c, v) ==
    (c[1] * Q - v[1]) * (c[1] * Q - v[1])
  + (c[2] * Q - v[2]) * (c[2] * Q - v[2])
  + (c[3] * Q - v[3]) * (c[3] * Q - v[3])

distances(pal, v) == [i \in 1..Len(pal) |-> SqDist(pal[i], v)]

RECURSIVE argmin_scan(_, _, _)
argmin_scan(d, i, best) ==
    IF i > Len(d) THEN best
    ELSE argmin_scan(d, i + 1, IF d[i] < d[best] THEN i ELSE best)

\* The mutant of argmin: the last minimum wins.
RECURSIVE argmin_last_scan(_, _, _)
argmin_last_scan(d, i, best) ==
    IF i > Len(d) THEN best
    ELSE argmin_last_scan(d, i + 1, IF d[i] <= d[best] THEN i ELSE best)

argmin_last(d) == argmin_last_scan(d, 2, 1)

\* A mutant of argmin: the scan starts one entry late, so the first entry of a
\* palette of two or more is never chosen.
argmin_from_second(d) == IF Len(d) < 2 THEN 1 ELSE argmin_scan(d, 3, 2)

\* np.argmin: the index of the first minimum (1-based here, 0-based in numpy).
argmin(d) == argmin_scan(d, 2, 1)

\* ---------------------------------------------------------------- error diffusion
\* What line 37 (82) reads as old_pixel.  Line 29 (75) binds old_pixel to
\* img_array[y, x], which numpy returns as a view of the buffer, not a copy;
\* line 36 (81) then writes new_pixel through img_array[y, x], so the later read
\* of old_pixel sees the buffer after that write.
old_pixel_when_error_is_taken(before, after, y, x) == after[y][x]

\* img_array[ty, tx] += delta
AddAt(arr, ty, tx, delta) == [arr EXCEPT ![ty][tx] = VAdd(@, delta)]

\* The mutant of fs_pixel: the matched colour is never stored in the buffer.
fs_pixel_unwritten(arr, h, w, y, x, pal) == arr

\* A mutant of fs_pixel: the matched colour is stored one column to the left,
\* img_array[y, x - 1], where the index -1 of column 0 is the last column.
fs_pixel_stored_behind(arr, h, w, y, x, pal) ==
    [arr EXCEPT ![y][(x - 1) % w] = ToFloat(pal[argmin(distances(pal, arr[y][x]))])]

\* One iteration of the loop body of floyd_steinberg_python (lines 29-46) for a
\* non-empty palette: the buffer after it.
fs_pixel(arr, h, w, y, x, pal) ==
    LET nearest_idx == argmin(distances(pal, arr[y][x]))
        new_pixel == ToFloat(pal[nearest_idx])
        a0 == [arr EXCEPT ![y][x] = new_pixel]
        error == VSub(old_pixel_when_error_is_taken(arr, a0, y, x), new_pixel)
        a1 == IF x + 1 < w THEN AddAt(a0, y, x + 1, VScale(error, 7, 16)) ELSE a0
        a2 == IF y + 1 < h /\ x > 0 THEN AddAt(a1, y + 1, x - 1, VScale(error, 3, 16)) ELSE a1
        a3 == IF y + 1 < h THEN AddAt(a2, y + 1, x, VScale(error, 5, 16)) ELSE a2
        a4 == IF y + 1 < h /\ x + 1 < w THEN AddAt(a3, y + 1, x + 1, VScale(error, 1, 16)) ELSE a3
    IN a4

\* A mutant of atkinson_pixel: the matched colour is not stored at (x, y).
atkinson_pixel_unstored(arr, h, w, y, x, pal) == arr

\* One iteration of the loop body of atkinson_python (lines 75-95).
atkinson_pixel(arr, h, w, y, x, pal) ==
    LET nearest_idx == argmin(distances(pal, arr[y][x]))
        new_pixel == ToFloat(pal[nearest_idx])
        a0 == [arr EXCEPT ![y][x] = new_pixel]
        error == VScale(VSub(old_pixel_when_error_is_taken(arr, a0, y, x), new_pixel), 1, 8)
        a1 == IF x + 1 < w THEN AddAt(a0, y, x + 1, error) ELSE a0
        a2 == IF x + 2 < w THEN AddAt(a1, y, x + 2, error) ELSE a1
        a3 == IF y + 1 < h /\ x > 0 THEN AddAt(a2, y + 1, x - 1, error) ELSE a2
        a4 == IF y + 1 < h THEN AddAt(a3, y + 1, x, error) ELSE a3
        a5 == IF y + 1 < h /\ x + 1 < w THEN AddAt(a4, y + 1, x + 1, error) ELSE a4
        a6 == IF y + 2 < h THEN AddAt(a5, y + 2, x, error) ELSE a5
    IN a6

\* np.clip(v, 0, 255).astype(np.uint8) of one float channel (lines 48, 97).
ClipToByte(v) == (IF v < 0 THEN 0 ELSE IF v > 255 * Q THEN 255 * Q ELSE v) \div Q

ClipArray(arr) ==
    [i \in DOMAIN arr |-> [j \in DOMAIN arr[i] |->
        <<ClipToByte(arr[i][j][1]), ClipToByte(arr[i][j][2]), ClipToByte(arr[i][j][3])>>]]

\* ---------------------------------------------------------------- ordered dithering
\* The numerators of the three pattern tables (lines 115-126).
Pattern2 == << <<0, 2>>,
               <<3, 1>> >>

Pattern4 == << <<0, 8, 2, 10>>,
               <<12, 4, 14, 6>>,
               <<3, 11, 1, 9>>,
               <<15, 7, 13, 5>> >>

Pattern8 == << <<0, 32, 8, 40, 2, 34, 10, 42>>,
               <<48, 16, 56, 24, 50, 18, 58, 26>>,
               <<12, 44, 4, 36, 14, 46, 6, 38>>,
               <<60, 28, 52, 20, 62, 30, 54, 22>>,
               <<3, 35, 11, 43, 1, 33, 9, 41>>,
               <<51, 19, 59, 27, 49, 17, 57, 25>>,
               <<15, 47, 7, 39, 13, 45, 5, 37>>,
               <<63, 31, 55, 23, 61, 29, 53, 21>> >>

\* patterns[n]: np.array(numerators) / n^2, as floats.
patterns(n) ==
    LET num == CASE n = 2 -> Pattern2 [] n = 4 -> Pattern4 [] n = 8 -> Pattern8
    IN [i \in 0..(n - 1) |-> [j \in 0..(n - 1) |-> num[i + 1][j + 1] * (Q \div (n * n))]]

\* patterns.get(pattern_size, patterns[4]) (line 129).
patterns_get(pattern_size) ==
    IF pattern_size \in {2, 4, 8} THEN patterns(pattern_size) ELSE patterns(4)

Min(a, b) == IF a < b THEN a ELSE b

\* A mutant of threshold_map: the pattern is read with row and column swapped.
threshold_map_transposed(pattern, height, width, pattern_size) ==
    LET n == Cardinality(DOMAIN pattern)
        rows == Min(height, n * (height \div pattern_size + 1))
        cols == Min(width, n * (width \div pattern_size + 1))
    IN [h |-> rows, w |-> cols,
        v |-> [i \in 0..(rows - 1) |-> [j \in 0..(cols - 1) |-> pattern[j % n][i % n] * 255]]]

\* A mutant of threshold_map: the flattened pattern is repeated along the
\* flattened image, so the threshold of a pixel depends on the image's width.
threshold_map_flat(pattern, height, width, pattern_size) ==
    LET n == Cardinality(DOMAIN pattern)
        rows == Min(height, n * (height \div pattern_size + 1))
        cols == Min(width, n * (width \div pattern_size + 1))
    IN [h |-> rows, w |-> cols,
        v |-> [i \in 0..(rows - 1) |-> [j \in 0..(cols - 1) |->
                 pattern[((i * cols + j) \div n) % n][(i * cols + j) % n] * 255]]]

\* A mutant of threshold_map: the tile has no spare repetition, so it is
\* smaller than an image whose side is no multiple of pattern_size.
threshold_map_unpadded(pattern, height, width, pattern_size) ==
    LET n == Cardinality(DOMAIN pattern)
        rows == Min(height, n * (height \div pattern_size))
        cols == Min(width, n * (width \div pattern_size))
    IN [h |-> rows, w |-> cols,
        v |-> [i \in 0..(rows - 1) |-> [j \in 0..(cols - 1) |-> pattern[i % n][j % n] * 255]]]

\* Lines 137-138 for pattern_size > 0: np.tile(pattern, (height // pattern_size + 1,
\* width // pattern_size + 1))[:height, :width] * 255.  The tile repeats the
\* pattern it was given; the repetition counts come from pattern_size.
threshold_map(pattern, height, width, pattern_size) ==
    LET n == Cardinality(DOMAIN pattern)
        rows == Min(height, n * (height \div pattern_size + 1))
        cols == Min(width, n * (width \div pattern_size + 1))
    IN [h |-> rows, w |-> cols,
        v |-> [i \in 0..(rows - 1) |-> [j \in 0..(cols - 1) |-> pattern[i % n][j % n] * 255]]]

\* numpy's broadcasting rule for one axis.
Broadcastable(a, b) == a = b \/ a = 1 \/ b = 1

\* Whether img_array + threshold[:, :, np.newaxis] (line 141) has a shape.
thresh_shape_ok(height, width, threshold) ==
    Broadcastable(height, threshold.h) /\ Broadcastable(width, threshold.w)

\* The length two broadcastable axes of lengths a and b broadcast to.
BroadcastLen(a, b) == IF a = 1 THEN b ELSE a

\* img_array + threshold[:, :, np.newaxis] - 128 (line 141), for shapes that
\* broadcast: an axis of length 1 is repeated along the other array's axis.
apply_threshold(src, height, width, threshold) ==
    [i \in 0..(BroadcastLen(height, threshold.h) - 1) |->
       [j \in 0..(BroadcastLen(width, threshold.w) - 1) |->
        LET t == threshold.v[IF threshold.h = 1 THEN 0 ELSE i][IF threshold.w = 1 THEN 0 ELSE j]
            c == src[IF height = 1 THEN 0 ELSE i][IF width = 1 THEN 0 ELSE j]
        IN <<c[1] * Q + t - 128 * Q, c[2] * Q + t - 128 * Q, c[3] * Q + t - 128 * Q>>]]

\* The value a uint8 array keeps of an integer stored into it (line 151).
ToUint8(v) == v % 256

\* The mutant of ordered_pixel: the thresholded value itself is stored, not the
\* palette entry nearest to it.
ordered_pixel_thresholded(v, pal) ==
    <<ToUint8(v[1] \div Q), ToUint8(v[2] \div Q), ToUint8(v[3] \div Q)>>

\* palette_array[nearest_indices] for one pixel of the row, as result keeps it
\* (lines 149-151).
ordered_pixel(v, pal) ==
    LET nearest == argmin(distances(pal, v))
        c == pal[nearest]
    IN <<ToUint8(c[1]), ToUint8(c[2]), ToUint8(c[3])>>

\* palette_array[nearest_indices] for one row (lines 148-151), for a non-empty
\* palette.
ordered_row(thresh, width, row, pal) ==
    [j \in 0..(width - 1) |-> ordered_pixel(thresh[row][j], pal)]

\* The pixels of the image ordered_dither returns (lines 129-153), for a call
\* that raises nothing.  Iteration y of the loop writes row y of result and no
\* other row, so each pixel of the final array is the one its row's iteration
\* wrote.
ordered_dither(img, pal, size) ==
    LET threshold == threshold_map(patterns_get(size), img.h, img.w, size)
        thresh == apply_threshold(img.px, img.h, img.w, threshold)
    IN [i \in 0..(img.h - 1) |->
          LET row == ordered_row(thresh, img.w, i, pal)
          IN [j \in 0..(img.w - 1) |->
                <<ToUint8(row[j][1]), ToUint8(row[j][2]), ToUint8(row[j][3])>>]]

\* ---------------------------------------------------------------- the palette option
\* A Python str is the sequence of its characters.  The strings used here are
\* made of hexadecimal digits, other letters, '#', ',', '-' and the space.
HexDigits == <<"0", "1", "2", "3", "4", "5", "6", "7", "8", "9", "A", "B", "C", "D", "E", "F", "a", "b", "c", "d", "e", "f">>

Whitespace == {" "}

\* s[a:b] for 0 <= a <= b.
Slice(s, a, b) == SubSeq(s, a + 1, IF b < Len(s) THEN b ELSE Len(s))

RECURSIVE lstrip(_, _)
\* s.lstrip(chars)
lstrip(s, chars) ==
    IF s # <<>> /\ Head(s) \in chars THEN lstrip(Tail(s), chars) ELSE s

RECURSIVE rstrip(_, _)
rstrip(s, chars) ==
    IF s # <<>> /\ s[Len(s)] \in chars THEN rstrip(SubSeq(s, 1, Len(s) - 1), chars) ELSE s

\* s.strip()
strip(s) == rstrip(lstrip(s, Whitespace), Whitespace)

\* s.startswith('#')
startswith_hash(s) == s # <<>> /\ Head(s) = "#"

RECURSIVE split_scan(_, _, _)
split_scan(s, sep, piece) ==
    IF s = <<>> THEN <<piece>>
    ELSE IF Head(s) = sep THEN <<piece>> \o split_scan(Tail(s), sep, <<>>)
    ELSE split_scan(Tail(s), sep, Append(piece, Head(s)))

\* s.split(sep) for a one-character separator.
split(s, sep) == split_scan(s, sep, <<>>)

IsHex(ch) == \E k \in 1..Len(HexDigits) : HexDigits[k] = ch

\* The value of one hexadecimal digit: 'A'..'F' and 'a'..'f' are 10..15.
HexVal(ch) ==
    LET k == CHOOSE k \in 1..Len(HexDigits) : HexDigits[k] = ch
    IN IF k <= 16 THEN k - 1 ELSE k - 7

\* int(s, 16) for a string of at most two characters: ValueError (ok FALSE)
\* for the empty string and for a character that is no digit.
int16(s) ==
    LET t == strip(s)
    IN IF t = <<>> \/ \E k \in 1..Len(t) : ~IsHex(t[k])
       THEN [ok |-> FALSE, v |-> 0]
       ELSE [ok |-> TRUE,
             v |-> IF Len(t) = 1 THEN HexVal(t[1]) ELSE 16 * HexVal(t[1]) + HexVal(t[2])]

\* hex_to_rgb (lines 178-181): ok FALSE when an int() raises ValueError.
hex_to_rgb(hex_color) ==
    LET h == lstrip(hex_color, {"#"})
        r == int16(Slice(h, 0, 2))
        g == int16(Slice(h, 2, 4))
        b == int16(Slice(h, 4, 6))
    IN [ok |-> r.ok /\ g.ok /\ b.ok, v |-> <<r.v, g.v, b.v>>]

RECURSIVE colors_of(_)
\* [hex_to_rgb(c) for c in strings]: the colours, and whether none raised.
colors_of(strings) ==
    IF strings = <<>> THEN [ok |-> TRUE, colors |-> <<>>]
    ELSE LET c == hex_to_rgb(Head(strings))
             rest == colors_of(Tail(strings))
         IN [ok |-> c.ok /\ rest.ok, colors |-> <<c.v>> \o rest.colors]

RECURSIVE keep(_, _)
\* The strings of a sequence that the loop appends a colour for.
keep(strings, from_file) ==
    IF strings = <<>> THEN <<>>
    ELSE LET s == strip(Head(strings))
             taken == IF from_file
                      THEN /\ startswith_hash(s)
                           /\ Len(s) >= 7
                           /\ \A k \in 2..7 : IsHex(s[k])
                      ELSE startswith_hash(s)
         IN (IF taken THEN <<s>> ELSE <<>>) \o keep(Tail(strings), from_file)

\* parse_palette (lines 155-176).  opt.text is palette_str; opt.exists is
\* Path(palette_str).exists(), and opt.lines are then the lines of that file.
parse_palette(opt) ==
    IF opt.exists
    THEN colors_of(keep(opt.lines, TRUE))
    ELSE colors_of(keep(split(opt.text, ","), FALSE))

\* The names and the colour strings of presets (lines 185-191).
PresetNames ==
    {<<"r", "i", "s", "o", "-", "p", "i", "n", "k", "-", "b", "l", "u", "e">>,
     <<"r", "i", "s", "o", "-", "f", "l", "u", "o", "r", "o">>,
     <<"r", "i", "s", "o", "-", "p", "r", "i", "m", "a", "r", "y">>,
     <<"r", "i", "s", "o", "-", "w", "a", "r", "m">>,
     <<"r", "i", "s", "o", "-", "c", "o", "o", "l">>}

presets(name) ==
    CASE name = <<"r", "i", "s", "o", "-", "p", "i", "n", "k", "-", "b", "l", "u", "e">> ->
           <<<<"#", "F", "F", "0", "0", "8", "0">>, <<"#", "0", "0", "7", "8", "B", "F">>>>
      [] name = <<"r", "i", "s", "o", "-", "f", "l", "u", "o", "r", "o">> ->
           <<<<"#", "F", "F", "4", "8", "B", "0">>, <<"#", "F", "F", "E", "8", "0", "0">>, <<"#", "0", "0", "A", "9", "5", "C">>>>
      [] name = <<"r", "i", "s", "o", "-", "p", "r", "i", "m", "a", "r", "y">> ->
           <<<<"#", "F", "F", "0", "0", "0", "0">>, <<"#", "0", "0", "0", "0", "F", "F">>, <<"#", "F", "F", "F", "F", "0", "0">>>>
      [] name = <<"r", "i", "s", "o", "-", "w", "a", "r", "m">> ->
           <<<<"#", "F", "F", "6", "6", "0", "0">>, <<"#", "F", "F", "E", "8", "0", "0">>, <<"#", "F", "F", "0", "0", "8", "0">>>>
      [] name = <<"r", "i", "s", "o", "-", "c", "o", "o", "l">> ->
           <<<<"#", "0", "0", "7", "8", "B", "F">>, <<"#", "0", "0", "A", "9", "5", "C">>, <<"#", "5", "C", "5", "5", "A", "6">>>>

\* load_preset_palette (lines 183-196); main calls it for the five names only.
load_preset_palette(preset_name) == colors_of(presets(preset_name))

\* The values of --palette: [text, exists, lines].
Inline(text) == [text |-> text, exists |-> FALSE, lines |-> <<>>]

File(lines) == [text |-> <<"p", ".", "t", "x", "t">>, exists |-> TRUE, lines |-> lines]

PaletteOptions ==
         {Inline(<<"r", "i", "s", "o", "-", "p", "i", "n", "k", "-", "b", "l", "u", "e">>),
          Inline(<<"r", "i", "s", "o", "-", "f", "l", "u", "o", "r", "o">>),
          Inline(<<"#", "0", "0", "0", "0", "0", "0", ",", "#", "F", "F", "F", "F", "F", "F">>),
          Inline(<<"#", "F", "F", "F", "F", "F", "F", ",", " ", "#", "0", "0", "0", "0", "0", "0">>),
          Inline(<<"#", "1", "4", "1", "4", "1", "4">>),
          Inline(<<"0", "0", "0", "0", "0", "0", ",", "F", "F", "F", "F", "F", "F">>),
          Inline(<<"#", "1", "2">>),
          Inline(<<>>),
          File(<<<<"#", " ", "i", "n", "k", "s">>, <<"#", "0", "0", "0", "0", "0", "0", " ">>, <<"#", "F", "F", "F", "F", "F", "F">>>>),
          File(<<<<"0", "0", "0", "0", "0", "0">>, <<"F", "F", "F", "F", "F", "F">>>>),
          [text |-> <<"r", "i", "s", "o", "-", "c", "o", "o", "l">>, exists |-> TRUE, lines |-> <<<<"#", "0", "0", "0", "0", "0", "0">>>>]}

NoOption == Inline(<<>>)


\* ---------------------------------------------------------------- the program
VARIABLES
    caller,        \* "main": the run is main's; "direct": an engine called on its own
    algorithm,     \* main's --algorithm option
    engine,        \* the engine function that runs
    pattern_size,  \* ordered_dither's pattern_size argument
    image,         \* the caller's image
    palette,       \* the caller's colour list
    img_array,     \* the engine's buffer
    img_thresh,    \* ordered_dither's thresholded image
    result,        \* ordered_dither's result array
    y, x,          \* the loop position
    pc,            \* "options", "palette", "main", "call", "loop", "return", "returned",
                   \* "done", "raised"
    exc,           \* the exception that ended the run, "None" if none
    exc_line,      \* the line of dither.py that raised it, 0 if none
    returned,      \* <<>> or <<the image the engine returned>>
    saved,         \* <<>> or <<the image main saved>>
    matched,       \* history: the pixels matched so far, each with the value matched
    parts,         \* the outputs of dithering an image whole and in two halves
    palette_opt,   \* main's --palette option
    pil_accepts_empty, \* whether the PIL installed builds an image from an empty array
    first,         \* <<>> or <<the outcome of the run before this one>>
    inv            \* the invocations that run side by side

\* What no step of a single run changes.
others == <<parts, palette_opt, pil_accepts_empty, first, inv>>

vars == <<others, caller, algorithm, engine, pattern_size, image, palette, img_array,
          img_thresh, result, y, x, pc, exc, exc_line, returned, saved, matched>>

\* The choices of --algorithm (line 202), as strings.
Algorithms ==
    {<<"f", "l", "o", "y", "d", "-", "s", "t", "e", "i", "n", "b", "e", "r", "g">>,
     <<"a", "t", "k", "i", "n", "s", "o", "n">>,
     <<"o", "r", "d", "e", "r", "e", "d", "-", "2", "x", "2">>,
     <<"o", "r", "d", "e", "r", "e", "d", "-", "4", "x", "4">>,
     <<"o", "r", "d", "e", "r", "e", "d", "-", "8", "x", "8">>}

\* The values --algorithm is given: the five choices and two other names.
Selectors ==
    Algorithms \cup {<<"s", "i", "e", "r", "r", "a">>,
                     <<"o", "r", "d", "e", "r", "e", "d", "-", "1", "6", "x", "1", "6">>}

\* No --algorithm: an engine is called directly.
NoSelector == <<>>

\* The sizes an engine's caller passes on its own (main passes only 2, 4 and 8).
PatternSizes == {0, 3, 4, 16}

\* The state of a call that has not started.
Fresh ==
    /\ img_array = Empty
    /\ img_thresh = Empty
    /\ result = Empty
    /\ y = 0
    /\ x = 0
    /\ exc = "None"
    /\ exc_line = 0
    /\ returned = <<>>
    /\ saved = <<>>
    /\ matched = <<>>

\* No image has been dithered in halves.
NoParts == [split |-> "none", whole |-> <<>>, left |-> <<>>, right |-> <<>>, joined |-> <<>>]

\* No run has ended before this one, and no invocations run side by side.
Alone == first = <<>> /\ inv = <<>>

\* The PIL installed either builds an image from an array without pixels or
\* raises ValueError; which of the two matters for such arrays only.
PilBuilds(img) == IF img.h > 0 /\ img.w > 0 THEN {TRUE} ELSE BOOLEAN

Init ==
    /\ image \in Images
    /\ pil_accepts_empty \in PilBuilds(image)
    /\ \/ /\ caller = "main"
          /\ algorithm \in Selectors
          /\ palette_opt \in PaletteOptions
          /\ palette = <<>>
          /\ engine = "none"
          /\ pattern_size = 4
          /\ pc = "options"
       \/ /\ caller = "direct"
          /\ algorithm = NoSelector
          /\ palette_opt = NoOption
          /\ palette \in Palettes
          /\ \/ engine \in {"floyd_steinberg_python", "atkinson_python"} /\ pattern_size = 4
             \/ engine = "ordered_dither" /\ pattern_size \in PatternSizes
          /\ pc = "call"
    /\ Fresh
    /\ parts = NoParts
    /\ Alone

\* raise: the run ends with exception name, raised at the given line.
Raise(name, line) ==
    /\ pc' = "raised"
    /\ exc' = name
    /\ exc_line' = line

NoRaise == exc' = exc /\ exc_line' = exc_line

\* s.startswith(prefix)
startswith(s, prefix) == Len(s) >= Len(prefix) /\ SubSeq(s, 1, Len(prefix)) = prefix

IsDigit(ch) == \E k \in 1..10 : HexDigits[k] = ch

RECURSIVE int10_scan(_, _)
int10_scan(s, acc) ==
    IF s = <<>> THEN acc ELSE int10_scan(Tail(s), 10 * acc + HexVal(Head(s)))

\* int(s) for a string of decimal digits and spaces: ValueError (ok FALSE)
\* for the empty string and for a character that is no digit.
int10(s) ==
    LET t == strip(s)
    IN IF t = <<>> \/ \E k \in 1..Len(t) : ~IsDigit(t[k])
       THEN [ok |-> FALSE, v |-> 0, exc |-> "ValueError"]
       ELSE [ok |-> TRUE, v |-> int10_scan(t, 0), exc |-> "None"]

\* int(algorithm.split('-')[1].split('x')[0]) (line 222): IndexError for a
\* name without '-', ValueError when the piece is no number.
ordered_size(name) ==
    LET pieces == split(name, "-")
    IN IF Len(pieces) < 2 THEN [ok |-> FALSE, v |-> 0, exc |-> "IndexError"]
       ELSE int10(split(pieces[2], "x")[1])

\* The mutant of main_options: --algorithm is a free string, no choice is
\* checked.
main_options_unchecked ==
    /\ pc = "options"
    /\ pc' = "palette"
    /\ UNCHANGED <<others, caller, algorithm, engine, pattern_size, image, palette,
                   img_array, img_thresh, result, y, x, exc, exc_line, returned, saved,
                   matched>>

\* click.Choice (lines 202-203) checks --algorithm before main's body runs: a
\* name that is none of the five choices ends the command with BadParameter
\* (a usage error) and main is not called.
main_options ==
    /\ pc = "options"
    /\ IF algorithm \in Algorithms
       THEN pc' = "palette" /\ NoRaise
       ELSE Raise("BadParameter", 202)
    /\ UNCHANGED <<others, caller, algorithm, engine, pattern_size, image, palette,
                   img_array, img_thresh, result, y, x, returned, saved, matched>>

\* main, lines 207-210: palette_colors.  A ValueError of hex_to_rgb (line 181)
\* ends main.
main_palette ==
    /\ pc = "palette"
    /\ LET parsed == IF palette_opt.text \in PresetNames
                     THEN load_preset_palette(palette_opt.text)
                     ELSE parse_palette(palette_opt)
       IN IF parsed.ok
          THEN palette' = parsed.colors /\ pc' = "main" /\ NoRaise
          ELSE palette' = palette /\ Raise("ValueError", 181)
    /\ UNCHANGED <<others, caller, algorithm, engine, pattern_size, image,
                   img_array, img_thresh, result, y, x, returned, saved, matched>>

\* main, lines 212-223: the colour list and the image are ready, the engine is
\* chosen by name.  floyd_steinberg and atkinson (lines 50-61, 99-110) take the
\* Python engines: dither_cython is not importable here (lines 10-15).
main_dispatch ==
    /\ pc = "main"
    /\ IF algorithm = <<"f", "l", "o", "y", "d", "-", "s", "t", "e", "i", "n", "b", "e", "r", "g">>
       THEN /\ engine' = "floyd_steinberg_python"
            /\ pattern_size' = pattern_size
            /\ pc' = "call"
            /\ NoRaise
       ELSE IF algorithm = <<"a", "t", "k", "i", "n", "s", "o", "n">>
       THEN /\ engine' = "atkinson_python"
            /\ pattern_size' = pattern_size
            /\ pc' = "call"
            /\ NoRaise
       ELSE IF startswith(algorithm, <<"o", "r", "d", "e", "r", "e", "d">>)
       THEN LET size == ordered_size(algorithm)
            IN IF size.ok
               THEN /\ engine' = "ordered_dither"
                    /\ pattern_size' = size.v
                    /\ pc' = "call"
                    /\ NoRaise
               ELSE /\ UNCHANGED <<engine, pattern_size>>
                    /\ Raise(size.exc, 222)
       ELSE \* no branch binds result: result.save (line 226 or 228) raises
            /\ UNCHANGED <<engine, pattern_size>>
            /\ Raise("UnboundLocalError", 226)
    /\ UNCHANGED <<others, caller, algorithm, image, palette, img_array, img_thresh, result,
                   y, x, returned, saved, matched>>

\* Lines 19-25 (65-71): the float copy of the image, then the loops start.
ed_enter(name) ==
    /\ pc = "call"
    /\ engine = name
    /\ img_array' = [i \in 0..(image.h - 1) |-> [j \in 0..(image.w - 1) |->
                        ToFloat(image.px[i][j])]]
    /\ y' = 0
    /\ x' = 0
    /\ pc' = IF image.h > 0 /\ image.w > 0 THEN "loop" ELSE "return"
    /\ UNCHANGED <<others, caller, algorithm, engine, pattern_size, image, palette,
                   img_thresh, result, exc, exc_line, returned, saved, matched>>

\* for y in range(height): for x in range(width): the position after (y, x),
\* or the end of the loops.
\* The mutant of ed_advance: the pixels are visited column by column.
ed_advance_by_columns ==
    IF y + 1 < image.h THEN y' = y + 1 /\ x' = x /\ pc' = "loop"
    ELSE IF x + 1 < image.w THEN y' = 0 /\ x' = x + 1 /\ pc' = "loop"
    ELSE y' = y /\ x' = x /\ pc' = "return"

\* A mutant of next_position: the loops are left at the end of the first row.
next_position_first_row(h, w, row, col) ==
    IF col + 1 < w THEN [y |-> row, x |-> col + 1, pc |-> "loop"]
    ELSE [y |-> row, x |-> col, pc |-> "return"]

next_position(h, w, row, col) ==
    IF col + 1 < w THEN [y |-> row, x |-> col + 1, pc |-> "loop"]
    ELSE IF row + 1 < h THEN [y |-> row + 1, x |-> 0, pc |-> "loop"]
    ELSE [y |-> row, x |-> col, pc |-> "return"]

ed_advance ==
    LET n == next_position(image.h, image.w, y, x)
    IN y' = n.y /\ x' = n.x /\ pc' = n.pc

\* A mutant of image_after_write: the buffer is the caller's pixel array itself
\* (no copy is made), so what is written to the buffer is written to the image.
image_aliased_to_buffer(img, buffer) == [img EXCEPT !.px = buffer]

\* The caller's image once the engine has written to its buffer.  np.array
\* (lines 19, 65, 130) copies the pixels and np.zeros_like (line 144) allocates
\* a new array: no write to the buffer reaches the image.
image_after_write(img, buffer) == img

\* One loop iteration of an error-diffusion engine.  With an empty palette
\* np.array(palette) has shape (0,), and palette - old_pixel (line 32, 77)
\* raises ValueError: shapes (0,) and (3,) do not broadcast.
ed_step(name, line, buffer_after) ==
    /\ pc = "loop"
    /\ engine = name
    /\ IF Len(palette) = 0
       THEN /\ Raise("ValueError", line)
            /\ UNCHANGED <<img_array, y, x, matched>>
       ELSE /\ img_array' = buffer_after
            /\ matched' = Append(matched, [p |-> <<y, x>>, v |-> img_array[y][x]])
            /\ ed_advance
            /\ NoRaise
    /\ image' = image_after_write(image, img_array')
    /\ UNCHANGED <<others, caller, algorithm, engine, pattern_size, palette,
                   img_thresh, result, returned, saved>>

\* The mutant of fromarray: the array is handed over as float64, which PIL
\* refuses for every image.
fromarray_unconverted(arr, line) ==
    /\ returned' = returned
    /\ pc' = "raised"
    /\ exc' = "TypeError"
    /\ exc_line' = line

\* A mutant of fromarray: whether the image is built differs from call to call.
fromarray_any_outcome(arr, line) ==
    \E built \in BOOLEAN :
        IF built
        THEN /\ returned' = <<[h |-> image.h, w |-> image.w, px |-> arr]>>
             /\ pc' = IF caller = "main" THEN "returned" ELSE "done"
             /\ NoRaise
        ELSE /\ returned' = returned
             /\ Raise("ValueError", line)

\* Image.fromarray (lines 48, 97, 153).  Whether PIL builds an image from an
\* array with no pixels, or raises ValueError, depends on the PIL installed
\* (pil_accepts_empty).
fromarray(arr, line) ==
    LET built == (image.h > 0 /\ image.w > 0) \/ pil_accepts_empty
    IN  IF built
        THEN /\ returned' = <<[h |-> image.h, w |-> image.w, px |-> arr]>>
             /\ pc' = IF caller = "main" THEN "returned" ELSE "done"
             /\ NoRaise
        ELSE /\ returned' = returned
             /\ Raise("ValueError", line)

\* return Image.fromarray(np.clip(img_array, 0, 255).astype(np.uint8))
ed_return(name, line) ==
    /\ pc = "return"
    /\ engine = name
    /\ fromarray(ClipArray(img_array), line)
    /\ UNCHANGED <<others, caller, algorithm, engine, pattern_size, image, palette,
                   img_array, img_thresh, result, y, x, saved, matched>>

floyd_steinberg_enter == ed_enter("floyd_steinberg_python")

floyd_steinberg_step ==
    ed_step("floyd_steinberg_python", 32,
            fs_pixel(img_array, image.h, image.w, y, x, palette))

floyd_steinberg_return == ed_return("floyd_steinberg_python", 48)

atkinson_enter == ed_enter("atkinson_python")

atkinson_step ==
    ed_step("atkinson_python", 77,
            atkinson_pixel(img_array, image.h, image.w, y, x, palette))

atkinson_return == ed_return("atkinson_python", 97)

\* ordered_dither, lines 129-145.  height // pattern_size raises
\* ZeroDivisionError for pattern_size 0 (line 137); the sum of line 141 raises
\* ValueError when the cropped tile is smaller than the image.
ordered_enter ==
    /\ pc = "call"
    /\ engine = "ordered_dither"
    /\ img_array' = image.px
    /\ y' = 0
    /\ x' = 0
    /\ IF pattern_size = 0
       THEN /\ Raise("ZeroDivisionError", 137)
            /\ UNCHANGED <<img_thresh, result>>
       ELSE LET threshold == threshold_map(patterns_get(pattern_size), image.h, image.w,
                                           pattern_size)
            IN IF ~thresh_shape_ok(image.h, image.w, threshold)
               THEN /\ Raise("ValueError", 141)
                    /\ UNCHANGED <<img_thresh, result>>
               ELSE /\ img_thresh' = apply_threshold(image.px, image.h, image.w, threshold)
                    /\ result' = [i \in 0..(image.h - 1) |-> [j \in 0..(image.w - 1) |->
                                     <<0, 0, 0>>]]
                    /\ pc' = IF image.h > 0 THEN "loop" ELSE "return"
                    /\ NoRaise
    /\ UNCHANGED <<others, caller, algorithm, engine, pattern_size, image, palette,
                   returned, saved, matched>>

\* The pixels of one row, left to right, each with its thresholded value.
RowMatches(thresh, width, row) ==
    [i \in 1..width |-> [p |-> <<row, i - 1>>, v |-> thresh[row][i - 1]]]

\* One iteration of for y in range(height) (lines 147-151).  img_thresh[y]
\* (line 148) raises IndexError for a row img_thresh does not have.  With an
\* empty palette palette_array has one axis and palette_array[np.newaxis, :, :]
\* (line 149) raises IndexError.  The assignment of line 151 raises ValueError
\* when the row of img_thresh is not as wide as the row of result.
ordered_step ==
    /\ pc = "loop"
    /\ engine = "ordered_dither"
    /\ IF y \notin DOMAIN img_thresh
       THEN /\ Raise("IndexError", 148)
            /\ UNCHANGED <<result, y, matched>>
       ELSE IF Len(palette) = 0
       THEN /\ Raise("IndexError", 149)
            /\ UNCHANGED <<result, y, matched>>
       ELSE IF DOMAIN img_thresh[y] # 0..(image.w - 1)
       THEN /\ Raise("ValueError", 151)
            /\ UNCHANGED <<result, y, matched>>
       ELSE /\ result' = [result EXCEPT ![y] = ordered_row(img_thresh, image.w, y, palette)]
            /\ matched' = matched \o RowMatches(img_thresh, image.w, y)
            /\ y' = IF y + 1 < image.h THEN y + 1 ELSE y
            /\ pc' = IF y + 1 < image.h THEN "loop" ELSE "return"
            /\ NoRaise
    /\ image' = image_after_write(image, result')
    /\ UNCHANGED <<others, caller, algorithm, engine, pattern_size, palette,
                   img_array, img_thresh, x, returned, saved>>

\* return Image.fromarray(result.astype(np.uint8)) (line 153).
ordered_return ==
    /\ pc = "return"
    /\ engine = "ordered_dither"
    /\ fromarray([i \in DOMAIN result |-> [j \in DOMAIN result[i] |->
                     <<ToUint8(result[i][j][1]), ToUint8(result[i][j][2]),
                       ToUint8(result[i][j][3])>>]], 153)
    /\ UNCHANGED <<others, caller, algorithm, engine, pattern_size, image, palette,
                   img_array, img_thresh, result, y, x, saved, matched>>

\* main, lines 225-228: result.save(...).
main_save ==
    /\ pc = "returned"
    /\ saved' = returned
    /\ pc' = "done"
    /\ UNCHANGED <<others, caller, algorithm, engine, pattern_size, image, palette,
                   img_array, img_thresh, result, y, x, exc, exc_line, returned, matched>>

Next ==
    \/ main_options
    \/ main_palette
    \/ main_dispatch
    \/ floyd_steinberg_enter
    \/ floyd_steinberg_step
    \/ floyd_steinberg_return
    \/ atkinson_enter
    \/ atkinson_step
    \/ atkinson_return
    \/ ordered_enter
    \/ ordered_step
    \/ ordered_return
    \/ main_save

Spec == Init /\ [][Next]_vars

\* ---------------------------------------------------------------- ordered dithering alone
\* ordered_dither called with each of its three sizes on images that cover the
\* largest pattern.
OrderedImages ==
    {MkImage(OrdDim, w, a, b) : w \in {OrdDim, OrdDim + 1}, a \in PixelVals, b \in PixelVals}

InitOrdered ==
    /\ image \in OrderedImages
    /\ palette \in Palettes \ {<<>>}
    /\ caller = "direct"
    /\ algorithm = NoSelector
    /\ engine = "ordered_dither"
    /\ pattern_size \in {2, 4, 8}
    /\ pc = "call"
    /\ Fresh
    /\ parts = NoParts
    /\ palette_opt = NoOption
    /\ pil_accepts_empty = TRUE
    /\ Alone

NextOrdered ==
    \/ ordered_enter
    \/ ordered_step
    \/ ordered_return

SpecOrdered == InitOrdered /\ [][NextOrdered]_vars

\* ---------------------------------------------------------------- an engine that keeps running
\* A call of an error-diffusion engine with a non-empty palette.  A call that
\* has begun goes on executing its statements: every step that stays possible
\* is eventually taken.
RasterImages ==
    {MkImage(h, w, Grey(10), Grey(250)) : h \in 0..RasterH, w \in 0..RasterW}

InitRaster ==
    /\ image \in RasterImages
    /\ pil_accepts_empty \in PilBuilds(image)
    /\ caller = "direct"
    /\ algorithm = NoSelector
    /\ palette_opt = NoOption
    /\ palette \in {<<Black, White>>, <<Grey(20)>>}
    /\ engine \in {"floyd_steinberg_python", "atkinson_python"}
    /\ pattern_size = 4
    /\ pc = "call"
    /\ Fresh
    /\ parts = NoParts
    /\ Alone

NextRaster ==
    \/ floyd_steinberg_enter
    \/ floyd_steinberg_step
    \/ floyd_steinberg_return
    \/ atkinson_enter
    \/ atkinson_step
    \/ atkinson_return

SpecRaster == InitRaster /\ [][NextRaster]_vars /\ WF_vars(NextRaster)

\* ---------------------------------------------------------------- the same call twice
\* A run that has ended is followed by a second run on the same image: main is
\* run again with the same options, an engine is called again with the same
\* arguments or with the palette's entries in another order.  Each call builds
\* its arrays anew (lines 19-25, 65-71, 130-145); nothing of the first call is
\* left but its outcome, which first keeps for comparison.
TwiceImages ==
    {MkImage(h, w, a, b) : h \in 0..TwiceH, w \in 0..TwiceW,
                           a \in {White, Grey(10), Grey(128)}, b \in {White, Grey(10), Grey(128)}}

\* The orders the entries of a list can be given in.
Reorderings(seq) ==
    {[k \in 1..Len(seq) |-> seq[f[k]]] :
        f \in {g \in [1..Len(seq) -> 1..Len(seq)] :
                  \A a, b \in 1..Len(seq) : a # b => g[a] # g[b]}}

InitTwice ==
    /\ image \in TwiceImages
    /\ pil_accepts_empty \in PilBuilds(image)
    /\ \/ /\ caller = "main"
          /\ algorithm \in Selectors
          /\ palette_opt \in PaletteOptions
          /\ palette = <<>>
          /\ engine = "none"
          /\ pattern_size = 4
          /\ pc = "options"
       \/ /\ caller = "direct"
          /\ algorithm = NoSelector
          /\ palette_opt = NoOption
          /\ palette \in Palettes
          /\ \/ engine \in {"floyd_steinberg_python", "atkinson_python"} /\ pattern_size = 4
             \/ engine = "ordered_dither" /\ pattern_size \in {2, 4, 8}
          /\ pc = "call"
    /\ Fresh
    /\ parts = NoParts
    /\ Alone

run_again ==
    /\ pc \in {"done", "raised"}
    /\ first = <<>>
    /\ first' = <<[palette |-> palette, returned |-> returned, saved |-> saved,
                   exc |-> exc, exc_line |-> exc_line, matched |-> matched]>>
    /\ IF caller = "main"
       THEN /\ pc' = "options"
            /\ engine' = "none"
            /\ pattern_size' = 4
            /\ palette' = <<>>
       ELSE /\ pc' = "call"
            /\ palette' \in Reorderings(palette)
            /\ UNCHANGED <<engine, pattern_size>>
    /\ img_array' = Empty
    /\ img_thresh' = Empty
    /\ result' = Empty
    /\ y' = 0
    /\ x' = 0
    /\ exc' = "None"
    /\ exc_line' = 0
    /\ returned' = <<>>
    /\ saved' = <<>>
    /\ matched' = <<>>
    /\ UNCHANGED <<parts, palette_opt, pil_accepts_empty, inv, caller, algorithm, image>>

NextTwice ==
    \/ main_options
    \/ main_palette
    \/ main_dispatch
    \/ floyd_steinberg_enter
    \/ floyd_steinberg_step
    \/ floyd_steinberg_return
    \/ atkinson_enter
    \/ atkinson_step
    \/ atkinson_return
    \/ ordered_enter
    \/ ordered_step
    \/ ordered_return
    \/ main_save
    \/ run_again

SpecTwice == InitTwice /\ [][NextTwice]_vars

\* ---------------------------------------------------------------- two invocations side by side
\* Two calls of the error-diffusion engines, each on its own image, take their
\* loop iterations in any order.  img_array, palette, y and x are local names
\* of each call (lines 19-28, 65-74): inv[k] holds those of call k.
InterImages ==
    {MkImage(h, w, a, b) : h \in 1..InterDim, w \in 1..InterDim,
                           a \in {Grey(10), White}, b \in {Grey(250)}}

InterPalettes == {<<Black, White>>, <<Grey(20), Black>>}

\* A mutant of own_palette: the float palette array is one module-level array,
\* the one the first call built.
shared_palette(k, invs) == invs[1].palette

\* The palette array call k reads: the array it built itself (line 25, 71).
own_palette(k, invs) == invs[k].palette

\* The buffer call k reads and writes: the array it built itself (line 19, 65).
own_buffer(k, invs) == invs[k].img_array

\* The loop body of the engine fn.
pixel_step(fn, arr, h, w, row, col, pal) ==
    IF fn = "floyd_steinberg_python" THEN fs_pixel(arr, h, w, row, col, pal)
    ELSE atkinson_pixel(arr, h, w, row, col, pal)

Invocation(fn, img, pal) ==
    [engine |-> fn, image |-> img, palette |-> pal, img_array |-> Empty,
     y |-> 0, x |-> 0, pc |-> "call", returned |-> <<>>, beside |-> FALSE]

InitInterleaved ==
    /\ \E img1 \in InterImages, img2 \in InterImages,
          fns \in {<<"floyd_steinberg_python", "floyd_steinberg_python">>,
                   <<"floyd_steinberg_python", "atkinson_python">>,
                   <<"atkinson_python", "atkinson_python">>},
          pal1 \in {<<Black, White>>}, pal2 \in InterPalettes :
            /\ img1 # img2
            /\ inv = <<Invocation(fns[1], img1, pal1), Invocation(fns[2], img2, pal2)>>
    /\ image = MkImage(0, 0, White, White)
    /\ palette = <<>>
    /\ caller = "direct"
    /\ algorithm = NoSelector
    /\ engine = "none"
    /\ pattern_size = 4
    /\ pc = "beside"
    /\ Fresh
    /\ parts = NoParts
    /\ palette_opt = NoOption
    /\ pil_accepts_empty = TRUE
    /\ first = <<>>

InterFrame ==
    UNCHANGED <<parts, palette_opt, pil_accepts_empty, first, caller, algorithm, engine,
                pattern_size, image, palette, img_array, img_thresh, result, y, x, pc,
                exc, exc_line, returned, saved, matched>>

\* Lines 19-25 (65-71) of call k.
inv_enter ==
    /\ \E k \in 1..2 :
          /\ inv[k].pc = "call"
          /\ inv' = [inv EXCEPT ![k].img_array =
                                    [i \in 0..(inv[k].image.h - 1) |->
                                       [j \in 0..(inv[k].image.w - 1) |->
                                          ToFloat(inv[k].image.px[i][j])]],
                                ![k].pc = "loop"]
    /\ InterFrame

\* One loop iteration of call k (lines 29-46, 75-95).
inv_step ==
    /\ \E k \in 1..2 :
          /\ inv[k].pc = "loop"
          /\ LET me == inv[k]
                 other == inv[3 - k]
                 n == next_position(me.image.h, me.image.w, me.y, me.x)
             IN inv' = [inv EXCEPT ![k].img_array =
                                      pixel_step(me.engine, own_buffer(k, inv), me.image.h,
                                                 me.image.w, me.y, me.x, own_palette(k, inv)),
                                   ![k].y = n.y,
                                   ![k].x = n.x,
                                   ![k].pc = n.pc,
                                   ![k].beside = me.beside
                                                   \/ (other.pc = "loop" /\ other.x + other.y > 0)]
    /\ InterFrame

\* Line 48 (97) of call k.
inv_return ==
    /\ \E k \in 1..2 :
          /\ inv[k].pc = "return"
          /\ inv' = [inv EXCEPT ![k].returned =
                                    <<[h |-> inv[k].image.h, w |-> inv[k].image.w,
                                       px |-> ClipArray(own_buffer(k, inv))]>>,
                                ![k].pc = "done"]
    /\ InterFrame

NextInterleaved ==
    \/ inv_enter
    \/ inv_step
    \/ inv_return

SpecInterleaved == InitInterleaved /\ [][NextInterleaved]_vars

\* ---------------------------------------------------------------- dithering in halves
\* A PartDim x PartDim image is dithered by ordered_dither whole, and its two
\* halves (left and right, or top and bottom) are dithered by two more calls,
\* each half handed over as an image of its own.
PartImage(seed) ==
    [h |-> PartDim, w |-> PartDim,
     px |-> [i \in 0..(PartDim - 1) |-> [j \in 0..(PartDim - 1) |->
               << (seed + 3 * j + 5 * i) % 256,
                  (7 * j + 11 * i) % 256,
                  (seed + i * j) % 256 >>]]]

PartImages == {PartImage(0), PartImage(101)}

Half == PartDim \div 2

\* img[:, from:from + width] and img[from:from + height, :].
Columns(img, from, width) ==
    [h |-> img.h, w |-> width,
     px |-> [i \in 0..(img.h - 1) |-> [j \in 0..(width - 1) |-> img.px[i][j + from]]]]

Rows(img, from, height) ==
    [h |-> height, w |-> img.w,
     px |-> [i \in 0..(height - 1) |-> [j \in 0..(img.w - 1) |-> img.px[i + from][j]]]]

FirstHalf == IF parts.split = "columns" THEN Columns(image, 0, Half) ELSE Rows(image, 0, Half)

SecondHalf ==
    IF parts.split = "columns" THEN Columns(image, Half, image.w - Half)
    ELSE Rows(image, Half, image.h - Half)

PartPalettes == {<<Black, White>>, <<<<255, 0, 128>>, <<0, 120, 191>>, White>>}

InitPartition ==
    /\ image \in PartImages
    /\ palette \in PartPalettes
    /\ caller = "direct"
    /\ algorithm = NoSelector
    /\ engine = "ordered_dither"
    /\ pattern_size \in {2, 4, 8}
    /\ pc = "call"
    /\ Fresh
    /\ parts \in {[NoParts EXCEPT !.split = s] : s \in {"columns", "rows"}}
    /\ palette_opt = NoOption
    /\ pil_accepts_empty = TRUE
    /\ Alone

PartFrame ==
    UNCHANGED <<palette_opt, pil_accepts_empty, first, inv, caller, algorithm, engine, pattern_size, image, palette, img_array,
                img_thresh, result, y, x, pc, exc, exc_line, returned, saved, matched>>

dither_whole ==
    /\ parts.whole = <<>>
    /\ parts' = [parts EXCEPT !.whole = <<ordered_dither(image, palette, pattern_size)>>]
    /\ PartFrame

dither_first_half ==
    /\ parts.left = <<>>
    /\ parts' = [parts EXCEPT !.left = <<ordered_dither(FirstHalf, palette, pattern_size)>>]
    /\ PartFrame

dither_second_half ==
    /\ parts.right = <<>>
    /\ parts' = [parts EXCEPT !.right = <<ordered_dither(SecondHalf, palette, pattern_size)>>]
    /\ PartFrame

\* The two outputs side by side (or one above the other).
join_halves ==
    /\ Len(parts.left) = 1 /\ Len(parts.right) = 1 /\ parts.joined = <<>>
    /\ parts' = [parts EXCEPT !.joined =
                   <<[i \in 0..(image.h - 1) |-> [j \in 0..(image.w - 1) |->
                        IF parts.split = "columns"
                        THEN IF j < Half THEN parts.left[1][i][j]
                             ELSE parts.right[1][i][j - Half]
                        ELSE IF i < Half THEN parts.left[1][i][j]
                             ELSE parts.right[1][i - Half][j]]]>>]
    /\ PartFrame

NextPartition ==
    \/ dither_whole
    \/ dither_first_half
    \/ dither_second_half
    \/ join_halves

SpecPartition == InitPartition /\ [][NextPartition]_vars

\* ---------------------------------------------------------------- claims
ErrorDiffusion == {"floyd_steinberg_python", "atkinson_python"}

\* The engine's call has ended.
Ended == pc \in {"returned", "done", "raised"}

\* An engine has been called.
Called == engine # "none"

NonEmptyImage == image.h > 0 /\ image.w > 0

\* ordered_dither runs with one of its three sizes.
KnownSize == engine = "ordered_dither" => pattern_size \in {2, 4, 8}

\* Every pixel of the image is colour c.
Flat(c) == \A p \in Cells(image.h, image.w) : At(image.px, p) = c

\* The shape of an array is (h, w).
HasShape(arr, h, w) ==
    DOMAIN arr = 0..(h - 1) /\ \A i \in 0..(h - 1) : DOMAIN arr[i] = 0..(w - 1)

\* The sum of the squared channel differences of palette colour c and value v.
SquaredDifference(c, v) ==
    LET d == [k \in Channels |-> c[k] * Q - v[k]]
    IN d[1] * d[1] + d[2] * d[2] + d[3] * d[3]

\* Entry i is nearest to v, and no entry before it is as near.
FirstNearest(pal, v, i) ==
    /\ \A j \in 1..Len(pal) : SquaredDifference(pal[i], v) <= SquaredDifference(pal[j], v)
    /\ \A j \in 1..(i - 1) : SquaredDifference(pal[j], v) > SquaredDifference(pal[i], v)

\* The Bayer matrix of side n (a power of 2), built from the matrix of side n/2:
\* each quadrant is 4 times the smaller matrix plus 0, 2 (top), 3, 1 (bottom).
RECURSIVE Bayer(_, _, _)
Bayer(n, i, j) ==
    IF n = 1 THEN 0
    ELSE LET half == n \div 2
             quadrant == CASE i < half /\ j < half -> 0
                           [] i < half /\ j >= half -> 2
                           [] i >= half /\ j < half -> 3
                           [] OTHER -> 1
         IN 4 * Bayer(half, i % half, j % half) + quadrant

\* C1: for each engine (ordered with size 2, 4 or 8), every image with width and
\* height above 0 and every non-empty palette, each pixel of the returned image
\* equals an entry of the palette.
C1_PaletteClosure ==
    (Len(returned) = 1 /\ NonEmptyImage /\ Len(palette) > 0 /\ KnownSize)
    => /\ HasShape(returned[1].px, image.h, image.w)
       /\ \A p \in Cells(image.h, image.w) :
             \E i \in 1..Len(palette) : At(returned[1].px, p) = palette[i]

C1_Witness ==
    /\ Len(returned) = 1
    /\ engine = "floyd_steinberg_python"
    /\ image.h >= 2 /\ image.w >= 2
    /\ Len(palette) >= 2
    /\ \E p, q \in Cells(image.h, image.w) : At(returned[1].px, p) # At(returned[1].px, q)

\* C2: when floyd_steinberg_python processes pixel (x, y) with x + 1 < width, the
\* value of pixel (x + 1, y) grows by exactly 7/16 of the error of (x, y): the
\* value of (x, y) before matching minus its matched colour.
C2_ForwardPropagation ==
    [][ (pc = "loop" /\ engine = "floyd_steinberg_python" /\ Len(palette) > 0
           /\ x + 1 < image.w)
        => \A k \in Channels :
              16 * (img_array'[y][x + 1][k] - img_array[y][x + 1][k])
                = 7 * (img_array[y][x][k] - img_array'[y][x][k]) ]_vars

\* The six cells the Atkinson kernel writes from (row, col).
AtkinsonTargets(row, col) ==
    { <<row, col + 1>>, <<row, col + 2>>, <<row + 1, col - 1>>, <<row + 1, col>>,
      <<row + 1, col + 1>>, <<row + 2, col>> }

FlatPaletteColour ==
    NonEmptyImage /\ \E i \in 1..Len(palette) : Flat(palette[i])

KeptByEveryThreshold(c) ==
    \A i, j \in 0..(pattern_size - 1) :
        \E n \in 1..Len(palette) :
            /\ palette[n] = c
            /\ FirstNearest(palette,
                            [k \in Channels |->
                                c[k] * Q + Bayer(pattern_size, i, j) * 255
                                             * (Q \div (pattern_size * pattern_size))
                                         - 128 * Q],
                            n)

PaletteRejectionLines == {32, 77, 149}

\* C5: with an empty palette every call (ordered with size 2, 4 or 8), whatever
\* the image, ends in the error raised for the palette and returns no image.
C5_EmptyPaletteRejected ==
    (Called /\ Len(palette) = 0 /\ Ended /\ KnownSize)
    => pc = "raised" /\ exc_line \in PaletteRejectionLines /\ returned = <<>>

C7_SizeFallback ==
    (engine = "ordered_dither" /\ pattern_size \notin {2, 4, 8}
       /\ NonEmptyImage /\ Len(palette) > 0)
    => /\ pc # "raised"
       /\ Len(returned) = 1 => returned[1].px = ordered_dither(image, palette, 4)

\* The colour the engine has stored for an already matched pixel, in bytes.
Stored(p) ==
    IF engine = "ordered_dither" THEN At(result, p)
    ELSE [k \in Channels |-> At(img_array, p)[k] \div Q]

\* C8: every pixel matched by any engine holds the palette entry with the least
\* sum of squared channel differences to the value matched, and among equally
\* near entries the one of smallest index.
C8_NearestColour ==
    \A n \in 1..Len(matched) :
        \E i \in 1..Len(palette) :
            /\ FirstNearest(palette, matched[n].v, i)
            /\ Stored(matched[n].p) = palette[i]
            /\ engine \in ErrorDiffusion => At(img_array, matched[n].p) = ToFloat(palette[i])

\* A tie between two different colours has been decided, and a value below 0
\* has been matched.
C8_Witness ==
    /\ Len(palette) = 2
    /\ palette[1] # palette[2]
    /\ \E n \in 1..Len(matched) :
          /\ SquaredDifference(palette[1], matched[n].v)
               = SquaredDifference(palette[2], matched[n].v)
          /\ Stored(matched[n].p) = palette[1]
    /\ \E n \in 1..Len(matched) : matched[n].v[1] < 0

\* source_pixel(p) + (M[y mod size][x mod size] * 255 / size^2 - 128) per channel.
Adjusted(p) ==
    [k \in Channels |->
        At(image.px, p)[k] * Q
          + Bayer(pattern_size, p[1] % pattern_size, p[2] % pattern_size) * 255
              * (Q \div (pattern_size * pattern_size))
          - 128 * Q]

\* C9: for size 2, 4 and 8 the value ordered_dither matches at (x, y) is the
\* source pixel plus M[y mod size][x mod size] * 255 / size^2 - 128 with M the
\* Bayer matrix of that size, and the output pixel is the first nearest palette
\* entry to it: a function of that one source pixel.
C9_OrderedPixelRule ==
    /\ \A n \in 1..Len(matched) :
          /\ matched[n].v = Adjusted(matched[n].p)
          /\ \E i \in 1..Len(palette) :
                /\ FirstNearest(palette, Adjusted(matched[n].p), i)
                /\ At(result, matched[n].p) = palette[i]
    /\ Len(returned) = 1 =>
          /\ Len(matched) = image.h * image.w
          /\ returned[1].px = result

C9_Witness ==
    /\ Len(returned) = 1
    /\ pattern_size = 8
    /\ image.h >= 8 /\ image.w >= 8
    /\ \E p, q \in Cells(image.h, image.w) : At(returned[1].px, p) # At(returned[1].px, q)

\* C10: for each size and palette, ordered_dither of the whole image equals,
\* pixel for pixel, the joined outputs of ordered_dither on its two halves.
C10_PartitionInvariance ==
    Len(parts.joined) = 1 => /\ Len(parts.whole) = 1 => parts.joined[1] = parts.whole[1]
                             /\ HasShape(parts.joined[1], PartDim, PartDim)

C10_Witness ==
    /\ Len(parts.joined) = 1
    /\ Len(parts.whole) = 1
    /\ parts.split = "columns"
    /\ pattern_size = 8
    /\ \E p, q \in Cells(image.h, image.w) : At(parts.joined[1], p) # At(parts.joined[1], q)

\* The five algorithms: the two error-diffusion engines, and ordered_dither
\* with size 2, 4 or 8.
FiveAlgorithms ==
    \/ engine \in ErrorDiffusion
    \/ engine = "ordered_dither" /\ pattern_size \in {2, 4, 8}

\* C11: for each of the five algorithms and every image with width and height
\* above 0, a call with a palette of exactly one entry c raises nothing and
\* returns an image of the same shape whose every pixel is c.
C11_SingleEntryPalette ==
    (FiveAlgorithms /\ NonEmptyImage /\ Len(palette) = 1)
    => /\ pc # "raised"
       /\ Len(returned) = 1 =>
             /\ HasShape(returned[1].px, image.h, image.w)
             /\ \A p \in Cells(image.h, image.w) : At(returned[1].px, p) = palette[1]

C11_Witness ==
    /\ Len(returned) = 1
    /\ engine = "ordered_dither" /\ pattern_size = 8
    /\ Len(palette) = 1
    /\ image.h >= 2 /\ image.w >= 2
    /\ \E p \in Cells(image.h, image.w) : At(image.px, p) # palette[1]

\* C12: for each of the five algorithms, every image of one pixel and every
\* non-empty palette, the call raises nothing and the image it returns has one
\* pixel.
C12_OnePixelImage ==
    (FiveAlgorithms /\ image.h = 1 /\ image.w = 1 /\ Len(palette) > 0)
    => /\ pc # "raised"
       /\ Len(returned) = 1 =>
             /\ returned[1].h = 1 /\ returned[1].w = 1
             /\ HasShape(returned[1].px, 1, 1)

C12_Witness ==
    /\ Len(returned) = 1
    /\ image.h = 1 /\ image.w = 1
    /\ engine = "ordered_dither" /\ pattern_size = 2
    /\ Len(palette) > 1

\* C13: a call of an engine on an image whose width or height is 0 ends in an
\* error, whatever the palette, and returns no image.
C13_ZeroSizeRejected ==
    (Called /\ Ended /\ ~NonEmptyImage)
    => pc = "raised" /\ returned = <<>>

\* The engine and the size (4 where ordered_dither is not the engine) that a
\* name stands for.
Dispatched(name, fn, size) ==
    algorithm = name => engine = fn /\ pattern_size = size

\* C14: once main has chosen, the engine is floyd_steinberg_python for
\* 'floyd-steinberg', atkinson_python for 'atkinson' and ordered_dither with
\* size 2, 4, 8 for 'ordered-2x2', 'ordered-4x4', 'ordered-8x8'; for another
\* name the run ends in the error raised for the option, no engine is called,
\* no pixel is matched and nothing is returned or saved.
C14_Dispatch ==
    caller = "main" =>
        /\ (algorithm \in Algorithms /\ Called) =>
              /\ Dispatched(<<"f", "l", "o", "y", "d", "-", "s", "t", "e", "i", "n", "b", "e", "r", "g">>, "floyd_steinberg_python", 4)
              /\ Dispatched(<<"a", "t", "k", "i", "n", "s", "o", "n">>, "atkinson_python", 4)
              /\ Dispatched(<<"o", "r", "d", "e", "r", "e", "d", "-", "2", "x", "2">>, "ordered_dither", 2)
              /\ Dispatched(<<"o", "r", "d", "e", "r", "e", "d", "-", "4", "x", "4">>, "ordered_dither", 4)
              /\ Dispatched(<<"o", "r", "d", "e", "r", "e", "d", "-", "8", "x", "8">>, "ordered_dither", 8)
        /\ (algorithm \in Algorithms /\ pc \in {"call", "loop", "return", "returned", "done"})
              => Called
        /\ algorithm \notin Algorithms =>
              /\ ~Called /\ matched = <<>> /\ returned = <<>> /\ saved = <<>>
              /\ pc \in {"options", "raised"}
              /\ pc = "raised" => exc = "BadParameter" /\ exc_line = 202

C14_Witness ==
    /\ caller = "main"
    /\ pc = "raised"
    /\ algorithm = <<"o", "r", "d", "e", "r", "e", "d", "-", "1", "6", "x", "1", "6">>
    /\ image.h > 0 /\ image.w > 0

\* The second of two runs has ended.
SecondEnded == Len(first) = 1 /\ pc \in {"done", "raised"}

NoEquidistance(values, pal) ==
    \A k \in 1..Len(values) : \A i, j \in 1..Len(pal) :
        pal[i] # pal[j] =>
            SquaredDifference(pal[i], values[k].v) # SquaredDifference(pal[j], values[k].v)

\* C16: if no value matched in a call is equally far from two different palette
\* colours, a call with the same image and the palette's entries in any other
\* order ends the same way and returns the same image.
C16_PaletteOrder ==
    (SecondEnded /\ caller = "direct"
       /\ NoEquidistance(first[1].matched, first[1].palette))
    => returned = first[1].returned /\ exc = first[1].exc

C16_Witness ==
    /\ SecondEnded
    /\ caller = "direct"
    /\ engine = "atkinson_python"
    /\ Len(palette) = 3
    /\ palette # first[1].palette
    /\ NoEquidistance(first[1].matched, first[1].palette)
    /\ Len(returned) = 1
    /\ \E p, q \in Cells(image.h, image.w) : At(returned[1].px, p) # At(returned[1].px, q)

RECURSIVE diffused(_, _, _, _, _, _)
\* The buffer of an engine that runs alone, once the pixels from number k on (in
\* raster order) are processed too.
diffused(fn, arr, h, w, pal, k) ==
    IF k >= h * w THEN arr
    ELSE diffused(fn, pixel_step(fn, arr, h, w, k \div w, k % w, pal), h, w, pal, k + 1)

\* The pixels an engine returns for an image when it runs alone.
Alone_output(fn, img, pal) ==
    ClipArray(diffused(fn,
                       [i \in 0..(img.h - 1) |-> [j \in 0..(img.w - 1) |-> ToFloat(img.px[i][j])]],
                       img.h, img.w, pal, 0))

\* C17: of two error-diffusion calls on different images whose loop iterations
\* are interleaved in any order, each returns the image it returns when it runs
\* alone.
C17_NoInterference ==
    \A k \in DOMAIN inv :
        inv[k].pc = "done" =>
            inv[k].returned[1].px = Alone_output(inv[k].engine, inv[k].image, inv[k].palette)

C17_Witness ==
    /\ Len(inv) = 2
    /\ inv[1].pc = "done" /\ inv[2].pc = "done"
    /\ inv[1].beside /\ inv[2].beside
    /\ inv[1].palette # inv[2].palette
    /\ inv[1].image.h = inv[2].image.h /\ inv[1].image.w = inv[2].image.w
    /\ inv[1].returned # inv[2].returned

\* C18: no step of a call of an engine, whether the call returns or raises,
\* changes the caller's image or the caller's palette.
C18_InputsUnchanged ==
    [][(Called /\ pc \in {"call", "loop", "return"})
         => image' = image /\ palette' = palette]_vars

C18_Witness ==
    /\ pc = "done"
    /\ engine = "floyd_steinberg_python"
    /\ Len(returned) = 1
    /\ image.h >= 2 /\ image.w >= 2
    /\ \A p \in Cells(image.h, image.w) : At(returned[1].px, p) # At(image.px, p)

\* C19: the colour list main hands to an engine has at least one entry, and
\* every entry has its three components in 0..255.
C19_PaletteNonEmpty ==
    (caller = "main" /\ Called)
    => /\ Len(palette) >= 1
       /\ \A i \in 1..Len(palette) : \A k \in Channels : palette[i][k] \in 0..255

\* The k-th pixel of an image in raster order, as <<row, column>>.
RasterCell(k) == <<(k - 1) \div image.w, (k - 1) % image.w>>

\* C20: an error-diffusion engine with a non-empty palette matches the pixels
\* in raster order, rows top to bottom and each row left to right, each pixel
\* once; it leaves its loops after width * height matches and then ends, with
\* the clamped image returned (whenever the image has a pixel).
C20_RasterScan ==
    /\ [](\A k \in 1..Len(matched) : matched[k].p = RasterCell(k))
    /\ [](pc \in {"return", "done", "raised"} => Len(matched) = image.h * image.w)
    /\ <>(/\ pc \in {"done", "raised"}
          /\ Len(matched) = image.h * image.w
          /\ NonEmptyImage => (pc = "done" /\ returned = <<[h |-> image.h, w |-> image.w,
                                                             px |-> ClipArray(img_array)]>>))

C20_Witness ==
    /\ pc = "done"
    /\ engine = "atkinson_python"
    /\ image.h >= 3 /\ image.w >= 3
    /\ Len(matched) = image.h * image.w
    /\ matched[image.w + 1].p = <<1, 0>>

\* The four cells the Floyd-Steinberg kernel writes from (row, col).
FloydSteinbergTargets(row, col) ==
    { <<row, col + 1>>, <<row + 1, col - 1>>, <<row + 1, col>>, <<row + 1, col + 1>> }

\* The kernel targets of an engine from (row, col) that are cells of an h x w image.
TargetsInside(fn, h, w, row, col) ==
    (IF fn = "floyd_steinberg_python" THEN FloydSteinbergTargets(row, col)
                                      ELSE AtkinsonTargets(row, col))
    \cap Cells(h, w)

\* C21: processing pixel (x, y) in an error-diffusion engine changes only the
\* cell (x, y) and the kernel targets that lie inside the image; every other
\* cell keeps its value, the buffer keeps its shape, and a target outside the
\* image is not written to any cell (no wrap-around).
C21_KernelFootprint ==
    [][ (pc = "loop" /\ engine \in ErrorDiffusion /\ Len(palette) > 0)
        => /\ HasShape(img_array', image.h, image.w)
           /\ \A p \in Cells(image.h, image.w)
                        \ (TargetsInside(engine, image.h, image.w, y, x) \cup {<<y, x>>}) :
                 At(img_array', p) = At(img_array, p) ]_vars

C21_Witness ==
    /\ pc = "loop"
    /\ engine = "floyd_steinberg_python"
    /\ image.w >= 3 /\ image.h >= 2
    /\ Len(matched) = image.w + 1
    /\ \A k \in 1..Len(matched) : At(img_array, matched[k].p) # matched[k].v
    /\ At(img_array, <<0, image.w - 1>>) # At(img_array, <<1, 0>>)

\* The weight, in sixteenths, with which an engine's kernel sends the error of a
\* pixel to the cell dx columns and dy rows away; 0 where the kernel has no entry.
KernelWeight(fn, dx, dy) ==
    IF fn = "floyd_steinberg_python"
    THEN CASE dx = 1 /\ dy = 0 -> 7
           [] dx = -1 /\ dy = 1 -> 3
           [] dx = 0 /\ dy = 1 -> 5
           [] dx = 1 /\ dy = 1 -> 1
           [] OTHER -> 0
    ELSE IF <<dy, dx>> \in AtkinsonTargets(0, 0) THEN 2 ELSE 0

\* The error of the j-th matched pixel: the value it was matched at minus the
\* palette colour matched to it.
ErrorOf(j) ==
    VSub(matched[j].v, ToFloat(palette[argmin(distances(palette, matched[j].v))]))

\* Sixteen times what the first j matched pixels send to the k-th, in channel c.
RECURSIVE Received(_, _, _)
Received(k, j, c) ==
    IF j = 0 THEN 0
    ELSE Received(k, j - 1, c)
         + KernelWeight(engine, matched[k].p[2] - matched[j].p[2],
                                matched[k].p[1] - matched[j].p[1]) * ErrorOf(j)[c]

\* C22: in both error-diffusion engines the value a pixel is matched at equals
\* its source colour plus the sum, over the pixels matched before it and the
\* kernel entries that lead from them to it, of weight times error, the error of
\* a pixel being the value it was matched at minus its matched colour.
C22_ErrorAccumulation ==
    (engine \in ErrorDiffusion /\ Len(palette) > 0)
    => \A k \in 1..Len(matched) : \A c \in Channels :
          16 * (matched[k].v[c] - ToFloat(At(image.px, matched[k].p))[c])
            = Received(k, k - 1, c)

\* The buffer of an engine once the first n pixels (in raster order) of the
\* buffer arr are processed, from pixel number k on, with nothing done to the
\* buffer between two pixels.
RECURSIVE Unclamped(_, _, _, _, _, _, _)
Unclamped(fn, arr, h, w, pal, k, n) ==
    IF k >= n THEN arr
    ELSE Unclamped(fn, pixel_step(fn, arr, h, w, k \div w, k % w, pal), h, w, pal, k + 1, n)

\* The float copy of the caller's image (lines 19, 65).
SourceBuffer ==
    [i \in 0..(image.h - 1) |-> [j \in 0..(image.w - 1) |-> ToFloat(image.px[i][j])]]

MatchedColour(k) == ToFloat(palette[argmin(distances(palette, matched[k].v))])

\* C24: in both error-diffusion engines, once a pixel has been matched its cell
\* of the buffer holds its matched palette colour and no later step of the scan
\* changes it; when the loops are left every cell of the buffer holds a palette
\* entry.
C24_VisitedFinal ==
    /\ [][ (engine \in ErrorDiffusion /\ Len(palette) > 0 /\ pc \in {"loop", "return"})
            => \A k \in 1..Len(matched) :
                  At(img_array', matched[k].p) = At(img_array, matched[k].p) ]_vars
    /\ []( (engine \in ErrorDiffusion /\ Len(palette) > 0)
            => /\ \A k \in 1..Len(matched) : At(img_array, matched[k].p) = MatchedColour(k)
               /\ pc = "return"
                    => \A p \in Cells(image.h, image.w) :
                          \E i \in 1..Len(palette) : At(img_array, p) = ToFloat(palette[i]) )

C24_Witness ==
    /\ pc = "return"
    /\ engine = "floyd_steinberg_python"
    /\ image.h >= 2 /\ image.w >= 2
    /\ Len(palette) >= 2
    /\ Len(matched) = image.h * image.w
    /\ \A k \in 1..Len(matched) : At(img_array, matched[k].p) # matched[k].v
    /\ \E p, q \in Cells(image.h, image.w) : At(img_array, p) # At(img_array, q)
====
